---------------------------- MODULE Spec2Model ----------------------------
(***************************************************************************)
(* A model of @logtape/otel (src/mod.ts): the sink returned by             *)
(* getOpenTelemetrySink, the conversion functions it applies to a LogTape  *)
(* record, and DiagLoggerAdaptor, which routes the OpenTelemetry backend's  *)
(* own diagnostics back into LogTape.                                      *)
(*                                                                         *)
(* JavaScript strings are sequences of one-character strings, so that      *)
(* concatenation, join and replaceAll are computed character by character. *)
(* A JavaScript value is a record [kind, val, elems]: kind is the sort of   *)
(* value, val its payload text and elems the elements of an array.         *)
(***************************************************************************)
EXTENDS Naturals, Sequences, FiniteSets, TLC

VARIABLES
    host,           \* what globalThis offers: Deno.inspect, util.inspect
    fn, arg, renderer, ret,   \* a direct call of one conversion function
    pc,             \* "start" before getOpenTelemetrySink, "ready" after
    options,        \* the OpenTelemetrySinkOptions of the sink
    diagLogger,     \* the process-wide hook installed by diag.setLogger
    hasDispose,     \* whether the sink carries Symbol.asyncDispose
    stack,          \* the calls in progress: sink, emit, nested sink, ...
    call,           \* the record of the current application log call
    emits,          \* the records handed to logger.emit during that call
    threw,          \* whether that call ended by an exception
    diagCount,      \* how many diagnostic calls the backend made during it
    diagCall,       \* the last of them: method, msg, values
    logCount,       \* how many Logger calls DiagLoggerAdaptor made during it
    logged,         \* the last of them: category, level, template, properties
    disposeCalls,   \* how often the caller invoked the disposal hook
    shutdownCalls   \* how often loggerProvider.shutdown ran

convVars == <<fn, arg, renderer, ret>>
sinkVars == <<pc, options, diagLogger, hasDispose, stack, call, emits, threw,
              diagCount, diagCall, logCount, logged, disposeCalls,
              shutdownCalls>>
vars == <<host, fn, arg, renderer, ret, pc, options, diagLogger, hasDispose,
          stack, call, emits, threw, diagCount, diagCall, logCount, logged,
          disposeCalls, shutdownCalls>>

---------------------------------------------------------------------------
(* Bounds of the explored inputs.                                          *)

MaxArrayLen == 2
MaxProps == 2
MaxMessageLen == 3
MaxMsgLen == 2
MaxDiagCalls == 2
MaxDispose == 2

---------------------------------------------------------------------------
(* JavaScript values.                                                      *)

V(kind, val) == [kind |-> kind, val |-> val, elems |-> <<>>]
Str(chars) == V("string", chars)
Arr(elems) == [kind |-> "array", val |-> <<>>, elems |-> elems]
Null == V("null", <<>>)
Undefined == V("undefined", <<>>)

\* The outcome of a call: a returned value, or an exception.
Ok(x) == [threw |-> FALSE, value |-> x]
Thrown == [threw |-> TRUE, value |-> <<>>]

One == V("number", <<"1">>)
Two == V("number", <<"2">>)
True == V("boolean", <<"t", "r", "u", "e">>)
\* new Date(0)
Epoch == V("date", <<"1", "9", "7", "0", "-", "0", "1", "-", "0", "1", "T",
                     "0", "0", ":", "0", "0", ":", "0", "0", ".", "0", "0",
                     "0", "Z">>)
\* { a: 1 }; the payload is the object's JSON text
ObjA == V("object", <<"{", "\"", "a", "\"", ":", "1", "}">>)
\* const o = {}; o.self = o
Cyclic == V("cyclic", <<"s", "e", "l", "f">>)
\* function f() {}
FnF == V("function", <<"f">>)

Scalars == {Null, Undefined, Str(<<"a">>), One, Two, True, Epoch, ObjA,
            Cyclic, FnF}
ArrayElems == {Null, Str(<<"a">>), One, Cyclic}

RECURSIVE SeqsUpTo(_, _)
SeqsUpTo(S, n) ==
    IF n = 0 THEN {<<>>}
    ELSE LET shorter == SeqsUpTo(S, n - 1)
         IN  shorter \cup {Append(s, x) : s \in {t \in shorter : Len(t) = n - 1},
                                          x \in S}

Arrays == {Arr(e) : e \in SeqsUpTo(ArrayElems, MaxArrayLen)}
PropertyValues == Scalars \cup Arrays

IsNullish(v) == v.kind \in {"null", "undefined"}

\* typeof v
TypeOf(v) ==
    CASE v.kind \in {"null", "date", "object", "cyclic", "array"} -> "object"
      [] OTHER -> v.kind

RECURSIVE Join(_, _)
\* parts.join(sep) of an array of strings
Join(parts, sep) ==
    IF parts = <<>> THEN <<>>
    ELSE IF Len(parts) = 1 THEN parts[1]
    ELSE parts[1] \o sep \o Join(Tail(parts), sep)

RECURSIVE JSON_stringify(_)
\* JSON.stringify(v): a string, undefined for a function, a TypeError for a
\* cyclic structure.  In an array a null, undefined or function element is
\* written as null.
JSON_stringify(v) ==
    CASE v.kind = "null" -> Ok(Str(<<"n", "u", "l", "l">>))
      [] v.kind \in {"undefined", "function"} -> Ok(Undefined)
      [] v.kind = "string" -> Ok(Str(<<"\"">> \o v.val \o <<"\"">>))
      [] v.kind \in {"number", "boolean", "object"} -> Ok(Str(v.val))
      [] v.kind = "date" -> Ok(Str(<<"\"">> \o v.val \o <<"\"">>))
      [] v.kind = "cyclic" -> Thrown
      [] v.kind = "array" ->
            LET each == [i \in 1..Len(v.elems) |-> JSON_stringify(v.elems[i])]
                text(i) == IF each[i].value.kind = "undefined"
                           THEN <<"n", "u", "l", "l">>
                           ELSE each[i].value.val
            IN  IF \E i \in 1..Len(v.elems) : each[i].threw THEN Thrown
                ELSE Ok(Str(<<"[">>
                            \o Join([i \in 1..Len(v.elems) |-> text(i)], <<",">>)
                            \o <<"]">>))

RECURSIVE InspectObject(_)
\* The inspector's rendering of a flat object literal, from its JSON text:
\* {"a":1} is shown as { a: 1 }.
InspectObject(json) ==
    IF json = <<>> THEN <<>>
    ELSE LET c == Head(json)
             shown == CASE c = "\"" -> <<>>
                        [] c = "{" -> <<"{", " ">>
                        [] c = "}" -> <<" ", "}">>
                        [] c = ":" -> <<":", " ">>
                        [] OTHER -> <<c>>
         IN  shown \o InspectObject(Tail(json))

RECURSIVE Deno_inspect(_)
\* Deno.inspect(v): always a string, also for a cyclic structure or a function
Deno_inspect(v) ==
    CASE v.kind = "null" -> <<"n", "u", "l", "l">>
      [] v.kind = "undefined" -> <<"u", "n", "d", "e", "f", "i", "n", "e", "d">>
      [] v.kind = "string" -> <<"\"">> \o v.val \o <<"\"">>
      [] v.kind \in {"number", "boolean", "date"} -> v.val
      [] v.kind = "object" -> InspectObject(v.val)
      [] v.kind = "cyclic" ->
            <<"<", "r", "e", "f", " ", "*", "1", ">", " ", "{", " ">> \o v.val
            \o <<":", " ", "[", "C", "i", "r", "c", "u", "l", "a", "r", " ",
                 "*", "1", "]", " ", "}">>
      [] v.kind = "function" ->
            <<"[", "F", "u", "n", "c", "t", "i", "o", "n", ":", " ">> \o v.val
            \o <<"]">>
      [] v.kind = "array" ->
            IF v.elems = <<>> THEN <<"[", "]">>
            ELSE <<"[", " ">>
                 \o Join([i \in 1..Len(v.elems) |-> Deno_inspect(v.elems[i])],
                         <<",", " ">>)
                 \o <<" ", "]">>

---------------------------------------------------------------------------
(* The host environment and the module-level constant inspect.             *)

\* deno: globalThis.Deno.inspect is a function.  util: globalThis.util is
\* "absent", or its inspect member is a "function", or it is the "string"
\* "function".
Hosts == [deno : BOOLEAN, util : {"absent", "function", "string"}]

\* Which of the three candidates the conditional expression selects.
inspectImpl ==
    IF host.deno THEN "Deno.inspect"
    ELSE IF host.util # "absent" /\ host.util = "string" THEN "util.inspect"
    ELSE "JSON.stringify"

\* inspect(value).  The second candidate is selected only when
\* globalThis.util.inspect === "function", a string: calling it is a TypeError.
inspect(value) ==
    CASE inspectImpl = "Deno.inspect" -> Ok(Str(Deno_inspect(value)))
      [] inspectImpl = "util.inspect" -> Thrown
      [] OTHER -> JSON_stringify(value)

---------------------------------------------------------------------------
(* The conversion functions.                                               *)

SeverityNumber_UNSPECIFIED == 0
SeverityNumber_DEBUG == 5
SeverityNumber_INFO == 9
SeverityNumber_WARN == 13
SeverityNumber_ERROR == 17
SeverityNumber_FATAL == 21

\* Mutant: the level "warning" is looked up under the name of Logger.warn.
mapLevelWarn(level) ==
    CASE level = "debug" -> SeverityNumber_DEBUG
      [] level = "info" -> SeverityNumber_INFO
      [] level = "warn" -> SeverityNumber_WARN
      [] level = "error" -> SeverityNumber_ERROR
      [] level = "fatal" -> SeverityNumber_FATAL
      [] OTHER -> SeverityNumber_UNSPECIFIED

mapLevelToSeverityNumber(level) ==
    CASE level = "debug" -> SeverityNumber_DEBUG
      [] level = "info" -> SeverityNumber_INFO
      [] level = "warning" -> SeverityNumber_WARN
      [] level = "error" -> SeverityNumber_ERROR
      [] level = "fatal" -> SeverityNumber_FATAL
      [] OTHER -> SeverityNumber_UNSPECIFIED

convertToString(value, objectRenderer) ==
    IF value.kind \in {"null", "undefined", "string"} THEN Ok(value)
    ELSE IF objectRenderer = "inspect" THEN inspect(value)
    ELSE IF value.kind \in {"number", "boolean"} THEN Ok(Str(value.val))
    ELSE IF value.kind = "date" THEN Ok(Str(value.val))
    ELSE JSON_stringify(value)

RECURSIVE MixedFrom(_, _, _)
\* The loop over the elements of an array property, from element i with the
\* type t seen so far ("none" for null): TRUE when it reaches the branch taken
\* for an element whose type differs from t.
MixedFrom(value, i, t) ==
    IF i > Len(value.elems) THEN FALSE
    ELSE LET v == value.elems[i]
         IN  IF IsNullish(v) THEN MixedFrom(value, i + 1, t)
             ELSE IF t # "none" /\ TypeOf(v) # t THEN TRUE
             ELSE MixedFrom(value, i + 1, TypeOf(v))

\* value.map((v) => convertToString(v, objectRenderer))
MapToString(value, objectRenderer) ==
    LET each == [i \in 1..Len(value.elems) |->
                    convertToString(value.elems[i], objectRenderer)]
    IN  IF \E i \in 1..Len(value.elems) : each[i].threw THEN Thrown
        ELSE Ok(Arr([i \in 1..Len(value.elems) |-> each[i].value]))

\* attributes[key] = value
Assign(attributes, key, value) == (key :> value) @@ attributes

\* Mutant: the property name is used as the attribute key.
attributeKeyBare(name) == name

\* `attributes.${name}`
attributeKey(name) == "attributes." \o name

\* One iteration of the loop over Object.entries(properties).
convertEntry(attributes, name, value, objectRenderer) ==
    LET key == attributeKey(name)
    IN  IF IsNullish(value) THEN Ok(attributes)
        ELSE IF value.kind = "array" THEN
            LET mapped == IF MixedFrom(value, 1, "none")
                          THEN MapToString(value, objectRenderer)
                          ELSE Ok(value)
                inLoop == IF MixedFrom(value, 1, "none")
                          THEN Assign(attributes, key, mapped.value)
                          ELSE attributes
            IN  IF mapped.threw THEN Thrown
                ELSE Ok(Assign(inLoop, key, value))
        ELSE
            LET encoded == convertToString(value, objectRenderer)
            IN  IF encoded.threw THEN Thrown
                ELSE IF IsNullish(encoded.value) THEN Ok(attributes)
                ELSE Ok(Assign(attributes, key, encoded.value))

RECURSIVE convertFrom(_, _, _, _)
convertFrom(attributes, properties, i, objectRenderer) ==
    IF i > Len(properties) THEN Ok(attributes)
    ELSE LET next == convertEntry(attributes, properties[i].name,
                                  properties[i].value, objectRenderer)
         IN  IF next.threw THEN Thrown
             ELSE convertFrom(next.value, properties, i + 1, objectRenderer)

\* properties is Object.entries(properties): a sequence of [name, value] with
\* distinct names.  The result is a function from attribute keys to values.
convertToAttributes(properties, objectRenderer) ==
    convertFrom(<<>>, properties, 1, objectRenderer)


RECURSIVE bodyFrom(_, _, _, _)
\* The loop of convertMessageToBody from index i (0-based) with the body
\* built so far.
bodyFrom(message, i, body, objectRenderer) ==
    IF ~(i < Len(message)) THEN Ok(body)
    ELSE LET msg == message[i + 1]
             pushed == Append(body, msg)
         IN  IF Len(message) <= i + 1 THEN Ok(pushed)
             ELSE LET val == convertToString(message[i + 2], objectRenderer)
                  IN  IF val.threw THEN Thrown
                      ELSE bodyFrom(message, i + 2, Append(pushed, val.value),
                                    objectRenderer)

convertMessageToBody(message, objectRenderer) ==
    bodyFrom(message, 0, <<>>, objectRenderer)

\* Mutant: body.join(""), which writes null and undefined as nothing.
joinBodyPlain(body) ==
    LET text(v) == IF IsNullish(v) THEN <<>> ELSE v.val
    IN  Str(Join([i \in 1..Len(body) |-> text(body[i])], <<>>))

\* body.map((v) => v === undefined ? "undefined" : v === null ? "null" : v)
\*     .join("")
joinBody(body) ==
    LET text(v) == CASE v.kind = "undefined" ->
                            <<"u", "n", "d", "e", "f", "i", "n", "e", "d">>
                     [] v.kind = "null" -> <<"n", "u", "l", "l">>
                     [] OTHER -> v.val
    IN  Str(Join([i \in 1..Len(body) |-> text(body[i])], <<>>))

---------------------------------------------------------------------------
(* The sink.                                                               *)

\* options.loggerProvider: "absent" (the sink builds an SDK LoggerProvider,
\* which has shutdown), or a supplied provider with or without shutdown.
Providers == {"absent", "withShutdown", "withoutShutdown"}

Options == [loggerProvider : Providers,
            messageType : {"absent", "string", "array"},
            objectRenderer : {"absent", "json", "inspect"},
            diagnostics : BOOLEAN]

\* Mutant: the hook is set without the test for shutdown.
providerAlwaysShutdown(opts) == TRUE

\* loggerProvider.shutdown != null
providerHasShutdown(opts) == opts.loggerProvider # "withoutShutdown"

\* options.objectRenderer ?? "inspect"
objectRendererOf(opts) ==
    IF opts.objectRenderer = "absent" THEN "inspect" ELSE opts.objectRenderer

\* Mutant: the category is compared as a whole.
isSuppressedExact(category) == category = <<"logtape", "meta", "otel">>

\* Mutant: only the first two segments are compared.
isSuppressedTwo(category) ==
    /\ Len(category) >= 2
    /\ category[1] = "logtape"
    /\ category[2] = "meta"

\* The test that opens the sink: the first three segments of the category.
isSuppressed(category) ==
    /\ Len(category) >= 3
    /\ category[1] = "logtape"
    /\ category[2] = "meta"
    /\ category[3] = "otel"

\* What the sink does with a record up to its call of logger.emit: it
\* returns at once ("drop"), it ends by an exception ("throw"), or it calls
\* emit with a record ("emit").
sink(record) ==
    IF isSuppressed(record.category) THEN [does |-> "drop"]
    ELSE
      LET objectRenderer == objectRendererOf(options)
          severityNumber == mapLevelToSeverityNumber(record.level)
          converted == convertToAttributes(record.properties, objectRenderer)
          attributes == Assign(converted.value, "category", record.category)
          body == convertMessageToBody(record.message, objectRenderer)
      IN  IF converted.threw \/ body.threw THEN [does |-> "throw"]
          ELSE [does |-> "emit",
                record |->
                  [severityNumber |-> severityNumber,
                   severityText |-> record.level,
                   body |-> IF options.messageType = "array"
                            THEN Arr(body.value)
                            ELSE joinBody(body.value),
                   attributes |-> attributes,
                   timestamp |-> record.timestamp]]

\* The initial value of call, before any record was logged.
NoRecord == [category |-> <<>>, level |-> "", message |-> <<>>,
             timestamp |-> 0, properties |-> <<>>]

NoDiagCall == [method |-> "", msg |-> <<>>, values |-> <<>>]
NoLogCall == [category |-> <<>>, level |-> "", template |-> <<>>,
              properties |-> <<>>]

\* getOpenTelemetrySink(options)
getOpenTelemetrySink(opts) ==
    /\ pc = "start"
    /\ pc' = "ready"
    /\ options' = opts
    /\ diagLogger' = IF opts.diagnostics THEN "DiagLoggerAdaptor" ELSE diagLogger
    /\ hasDispose' = providerHasShutdown(opts)
    /\ UNCHANGED <<host, convVars, stack, call, emits, threw, diagCount,
                   diagCall, logCount, logged, disposeCalls, shutdownCalls>>

\* The facility hands record to the sink, on top of the calls in progress:
\* frames are the frames of the callers between the pending emit and this
\* sink call, emitted the records emitted so far.
Dispatch(record, frames, emitted) ==
    LET run == sink(record)
    IN  CASE run.does = "drop" ->
               /\ UNCHANGED stack
               /\ emits' = emitted
               /\ threw' = FALSE
               /\ pc' = IF stack = <<>> THEN "returned" ELSE "logging"
          [] run.does = "throw" ->
               /\ stack' = <<>>
               /\ emits' = emitted
               /\ threw' = TRUE
               /\ pc' = "returned"
          [] OTHER ->
               /\ stack' = stack \o frames \o <<"sink", "emit">>
               /\ emits' = Append(emitted, [of |-> record, record |-> run.record])
               /\ threw' = FALSE
               /\ pc' = "logging"

\* The application logs record; the facility dispatches it to the sink.
Log(record) ==
    /\ pc = "ready"
    /\ stack = <<>>
    /\ call' = record
    /\ diagCount' = 0
    /\ logCount' = 0
    /\ Dispatch(record, <<>>, <<>>)
    /\ UNCHANGED <<host, convVars, options, diagLogger, hasDispose, diagCall,
                   logged, disposeCalls, shutdownCalls>>

\* logger.emit returns to the sink, and the sink to its caller.
EmitReturn ==
    /\ pc = "logging"
    /\ stack # <<>>
    /\ stack[Len(stack)] = "emit"
    /\ LET below == SubSeq(stack, 1, Len(stack) - 2)
           rest == IF below # <<>> /\ below[Len(below)] = "diag"
                   THEN SubSeq(below, 1, Len(below) - 1)
                   ELSE below
       IN  /\ stack' = rest
           /\ pc' = IF rest = <<>> THEN "returned" ELSE "logging"
    /\ UNCHANGED <<host, convVars, options, diagLogger, hasDispose, call,
                   emits, threw, diagCount, diagCall, logCount, logged,
                   disposeCalls, shutdownCalls>>

\* The application is done with the call and its outcome.
Continue ==
    /\ pc = "returned"
    /\ pc' = "ready"
    /\ call' = NoRecord
    /\ emits' = <<>>
    /\ threw' = FALSE
    /\ diagCount' = 0
    /\ diagCall' = NoDiagCall
    /\ logCount' = 0
    /\ logged' = NoLogCall
    /\ UNCHANGED <<host, convVars, options, diagLogger, hasDispose, stack,
                   disposeCalls, shutdownCalls>>

\* The caller invokes sink[Symbol.asyncDispose](), which is
\* loggerProvider.shutdown bound to the provider.
asyncDispose ==
    /\ pc = "ready"
    /\ hasDispose
    /\ disposeCalls < MaxDispose
    /\ disposeCalls' = disposeCalls + 1
    /\ shutdownCalls' = shutdownCalls + 1
    /\ UNCHANGED <<host, convVars, pc, options, diagLogger, hasDispose, stack,
                   call, emits, threw, diagCount, diagCall, logCount, logged>>

---------------------------------------------------------------------------
(* DiagLoggerAdaptor and the LogTape logger it writes to.                  *)

RECURSIVE replaceAll(_, _, _)
\* msg.replaceAll(c, by) for a one-character pattern c
replaceAll(msg, c, by) ==
    IF msg = <<>> THEN <<>>
    ELSE (IF Head(msg) = c THEN by ELSE <<Head(msg)>>)
         \o replaceAll(Tail(msg), c, by)

\* Mutant: only the opening brace is doubled.
escapeOpening(msg) == replaceAll(msg, "{", <<"{", "{">>)

\* #escape(msg)
escape(msg) ==
    replaceAll(replaceAll(msg, "{", <<"{", "{">>), "}", <<"}", "}">>)

\* Mutant: the adaptor logs under another category of LogTape's own.
adaptorCategoryOther == <<"logtape", "meta", "opentelemetry">>

\* The category of this.logger, set by the constructor.
adaptorCategory == <<"logtape", "meta", "otel">>

\* `${this.#escape(msg)}: {values}`, { values }: the arguments every method
\* of the adaptor passes to the Logger method it calls.
templated(method, msg, values) ==
    [category |-> adaptorCategory,
     method |-> method,
     template |-> escape(msg)
                  \o <<":", " ", "{", "v", "a", "l", "u", "e", "s", "}">>,
     properties |-> <<[name |-> "values", value |-> Arr(values)]>>]

\* The Logger call each method of DiagLoggerAdaptor makes.
DiagLoggerAdaptor_error(msg, values) == templated("error", msg, values)
DiagLoggerAdaptor_warn(msg, values) == templated("warn", msg, values)
DiagLoggerAdaptor_info(msg, values) == templated("info", msg, values)
DiagLoggerAdaptor_debug(msg, values) == templated("debug", msg, values)
DiagLoggerAdaptor_verbose(msg, values) == templated("debug", msg, values)

\* The level at which LogTape's Logger.error, warn, info and debug log.
levelOf(method) == IF method = "warn" THEN "warning" ELSE method

\* The property a template slot names.
slotValue(properties, key) ==
    LET name == IF key = <<"v", "a", "l", "u", "e", "s">> THEN "values" ELSE ""
        at == {i \in 1..Len(properties) : properties[i].name = name}
    IN  IF at = {} THEN Undefined ELSE properties[CHOOSE i \in at : TRUE].value

RECURSIVE parseMessageTemplate(_, _, _, _)
\* LogTape's reading of a message template: {{ and }} stand for one brace,
\* {key} for the property key.  part is the literal text read so far and
\* message the parts before it.
parseMessageTemplate(template, part, message, properties) ==
    IF template = <<>> THEN Append(message, Str(part))
    ELSE IF Len(template) >= 2 /\ template[1] \in {"{", "}"}
            /\ template[2] = template[1]
    THEN parseMessageTemplate(SubSeq(template, 3, Len(template)),
                              Append(part, template[1]), message, properties)
    ELSE LET closing == {i \in 2..Len(template) : template[i] = "}"}
         IN  IF template[1] = "{" /\ closing # {}
             THEN LET close == CHOOSE i \in closing : \A j \in closing : i <= j
                  IN  parseMessageTemplate(
                          SubSeq(template, close + 1, Len(template)), <<>>,
                          message \o <<Str(part),
                                       slotValue(properties,
                                                 SubSeq(template, 2, close - 1))>>,
                          properties)
             ELSE parseMessageTemplate(Tail(template),
                                       Append(part, template[1]), message,
                                       properties)

\* The record LogTape builds from a Logger call and hands to the sinks.
logRecordOf(logCall) ==
    [category |-> logCall.category,
     level |-> levelOf(logCall.method),
     message |-> parseMessageTemplate(logCall.template, <<>>, <<>>,
                                      logCall.properties),
     timestamp |-> 0,
     properties |-> logCall.properties]

\* While it handles an emit the backend calls a method of the installed
\* diagnostic logger; the adaptor logs through LogTape, whose record comes
\* back to the sink.
Diag(method, msg, values, logCall) ==
    /\ pc = "logging"
    /\ stack # <<>>
    /\ stack[Len(stack)] = "emit"
    /\ diagLogger = "DiagLoggerAdaptor"
    /\ diagCount < MaxDiagCalls
    /\ diagCount' = diagCount + 1
    /\ diagCall' = [method |-> method, msg |-> msg, values |-> values]
    /\ logCount' = logCount + 1
    /\ logged' = [category |-> logCall.category,
                  level |-> levelOf(logCall.method),
                  template |-> logCall.template,
                  properties |-> logCall.properties]
    /\ Dispatch(logRecordOf(logCall), <<"diag">>, emits)
    /\ UNCHANGED <<host, convVars, options, diagLogger, hasDispose, call,
                   disposeCalls, shutdownCalls>>

DiagError(msg, values) ==
    Diag("error", msg, values, DiagLoggerAdaptor_error(msg, values))
DiagWarn(msg, values) ==
    Diag("warn", msg, values, DiagLoggerAdaptor_warn(msg, values))
DiagInfo(msg, values) ==
    Diag("info", msg, values, DiagLoggerAdaptor_info(msg, values))
DiagDebug(msg, values) ==
    Diag("debug", msg, values, DiagLoggerAdaptor_debug(msg, values))
DiagVerbose(msg, values) ==
    Diag("verbose", msg, values, DiagLoggerAdaptor_verbose(msg, values))

---------------------------------------------------------------------------
(* Direct calls of the conversion functions.                               *)

CallConvertToString(value, objectRenderer) ==
    /\ fn = "none"
    /\ fn' = "convertToString"
    /\ arg' = value
    /\ renderer' = objectRenderer
    /\ ret' = convertToString(value, objectRenderer)
    /\ UNCHANGED <<host, sinkVars>>

CallConvertToAttributes(properties, objectRenderer) ==
    /\ fn = "none"
    /\ fn' = "convertToAttributes"
    /\ arg' = properties
    /\ renderer' = objectRenderer
    /\ ret' = convertToAttributes(properties, objectRenderer)
    /\ UNCHANGED <<host, sinkVars>>

CallMapLevelToSeverityNumber(level) ==
    /\ fn = "none"
    /\ fn' = "mapLevelToSeverityNumber"
    /\ arg' = level
    /\ renderer' = "none"
    /\ ret' = Ok(mapLevelToSeverityNumber(level))
    /\ UNCHANGED <<host, sinkVars>>

---------------------------------------------------------------------------
(* The inputs the specifications draw from.                                *)

Renderers == {"json", "inspect"}

Levels == {"trace", "debug", "info", "warning", "error", "fatal", "custom"}

Categories == {<<>>, <<"app">>, <<"logtape">>, <<"logtape", "meta">>,
               <<"logtape", "meta", "other">>, <<"app", "meta", "otel">>,
               <<"logtape", "meta", "otel">>,
               <<"logtape", "meta", "otel", "x">>}

Names == {"x", "y"}

\* The orders in which at most MaxProps of the names are set on an object.
NameSeqs == {n \in SeqsUpTo(Names, MaxProps) :
                \A i, j \in 1..Len(n) : i # j => n[i] # n[j]}

\* Object.entries of the properties with names n and values v.
Entries(n, v) == [i \in 1..Len(n) |-> [name |-> n[i], value |-> v[i]]]

Literals == {Str(<<"x", "=">>), Str(<<",">>)}

\* The messages of at most MaxMessageLen parts: literal text at the even
\* indices (0-based), any value at the odd ones.
Messages ==
    UNION {{m \in [1..n -> Literals \cup Scalars] :
               \A i \in 1..n : IF i % 2 = 1 THEN m[i] \in Literals
                                            ELSE m[i] \in Scalars} :
           n \in 0..MaxMessageLen}

Rec(category, level, message, properties) ==
    [category |-> category, level |-> level, message |-> message,
     timestamp |-> 0, properties |-> properties]

Hello == <<Str(<<"x", "=">>), One, Str(<<",">>)>>
\* ["x=", null, ",y=", undefined]
SpecExample == <<Str(<<"x", "=">>), Null, Str(<<",", "y", "=">>), Undefined>>

\* The records the application logs: every category at every level, every
\* message, and every property bag of at most one name.
Records ==
    {Rec(c, l, Hello, <<[name |-> "x", value |-> One]>>) :
        c \in Categories, l \in Levels}
    \cup {Rec(<<"app">>, "info", m, <<>>) : m \in Messages}
    \cup {Rec(<<"app">>, "info", SpecExample, <<>>)}
    \cup {Rec(<<"app", "db">>, "error", Hello, <<>>)}
    \cup {Rec(<<"app", "db">>, "error", Hello, <<[name |-> "x", value |-> v]>>) :
             v \in PropertyValues}

\* The diagnostic messages of the backend: text with braces in it.
DiagMsgs == SeqsUpTo({"a", "{", "}"}, MaxMsgLen)
DiagValues == {<<>>, <<One, Str(<<"a">>)>>}

DefaultOptions == [loggerProvider |-> "absent", messageType |-> "absent",
                   objectRenderer |-> "absent", diagnostics |-> FALSE]

ConvIdle ==
    /\ fn = "none"
    /\ arg = Null
    /\ renderer = "none"
    /\ ret = Ok(Null)

SinkIdle ==
    /\ pc = "start"
    /\ options = DefaultOptions
    /\ diagLogger = "none"
    /\ hasDispose = FALSE
    /\ stack = <<>>
    /\ call = NoRecord
    /\ emits = <<>>
    /\ threw = FALSE
    /\ diagCount = 0
    /\ diagCall = NoDiagCall
    /\ logCount = 0
    /\ logged = NoLogCall
    /\ disposeCalls = 0
    /\ shutdownCalls = 0

---------------------------------------------------------------------------
(* Spec: a sink is built with any options, the application logs records   *)
(* through it and disposes of it.  The host has Deno.inspect or no         *)
(* inspector; SpecConvert explores every host.                             *)

Init ==
    /\ host \in {h \in Hosts : h.util = "absent"}
    /\ ConvIdle
    /\ SinkIdle

Next ==
    \/ pc = "start" /\ \E opts \in Options : getOpenTelemetrySink(opts)
    \/ pc = "ready" /\ \E record \in Records : Log(record)
    \/ EmitReturn
    \/ Continue
    \/ asyncDispose

Spec == Init /\ [][Next]_vars

---------------------------------------------------------------------------
(* SpecDiag: the sink is built with or without diagnostics, and the        *)
(* backend reports any diagnostic message while it handles an emit.        *)

DiagRecords ==
    {Rec(c, "info", Hello, <<>>) :
        c \in {<<"app">>, <<"logtape", "meta">>, <<"logtape", "meta", "otel">>}}

DiagOptions == {o \in Options : /\ o.loggerProvider = "absent"
                                /\ o.messageType = "absent"
                                /\ o.objectRenderer = "absent"}

InitDiag ==
    /\ host = [deno |-> TRUE, util |-> "absent"]
    /\ ConvIdle
    /\ SinkIdle

NextDiag ==
    \/ pc = "start" /\ \E opts \in DiagOptions : getOpenTelemetrySink(opts)
    \/ pc = "ready" /\ \E record \in DiagRecords : Log(record)
    \/ pc = "logging" /\ \E msg \in DiagMsgs, values \in DiagValues :
          \/ DiagError(msg, values)
          \/ DiagWarn(msg, values)
          \/ DiagInfo(msg, values)
          \/ DiagDebug(msg, values)
          \/ DiagVerbose(msg, values)
    \/ EmitReturn
    \/ Continue

SpecDiag == InitDiag /\ [][NextDiag]_vars

---------------------------------------------------------------------------
(* SpecConvert: the conversion functions are applied to any input on any   *)
(* host.                                                                   *)

InitConvert ==
    /\ host \in Hosts
    /\ ConvIdle
    /\ SinkIdle

NextConvert ==
    \/ fn = "none" /\ \E value \in PropertyValues, r \in Renderers :
          CallConvertToString(value, r)
    \/ fn = "none" /\ \E n \in NameSeqs, r \in Renderers :
          \E v \in [1..Len(n) -> PropertyValues] :
             CallConvertToAttributes(Entries(n, v), r)
    \/ fn = "none" /\ \E level \in Levels : CallMapLevelToSeverityNumber(level)

SpecConvert == InitConvert /\ [][NextConvert]_vars

---------------------------------------------------------------------------
(* The properties.                                                         *)

\* The first three segments of a category are "logtape", "meta", "otel".
MetaOtel(category) ==
    Len(category) >= 3 /\ SubSeq(category, 1, 3) = <<"logtape", "meta", "otel">>

\* C1: a record whose category starts with "logtape", "meta", "otel" is never
\* handed to logger.emit, whatever its level, message and properties and
\* whatever the options of the sink: the call returns with nothing emitted,
\* and no emitted record stems from such a record.
C1_SuppressedNeverEmitted ==
    /\ \A i \in 1..Len(emits) : ~MetaOtel(emits[i].of.category)
    /\ MetaOtel(call.category) => emits = <<>> /\ ~threw /\ pc = "returned"

C1_Witness ==
    /\ pc = "returned"
    /\ call.category = <<"logtape", "meta", "otel", "x">>
    /\ call.level = "fatal"
    /\ options.messageType = "array"
    /\ emits = <<>>

\* The one emit of a call carries the level as severityText and the category
\* as the attribute "category".
OneEmitOfCall ==
    /\ Len(emits) = 1
    /\ emits[1].of = call
    /\ emits[1].record.severityText = call.level
    /\ "category" \in DOMAIN emits[1].record.attributes
    /\ emits[1].record.attributes["category"] = call.category

\* C2 as stated: every record whose category does not start with "logtape",
\* "meta", "otel" results in exactly one emit, with severityText the level
\* and the attribute "category" the category.
C2_AlwaysEmitted ==
    pc = "returned" /\ ~MetaOtel(call.category) => OneEmitOfCall

\* The values of a record that the sink may hand to convertToString.
StringifiedValues(record) ==
    {record.message[i] : i \in {j \in 1..Len(record.message) : j % 2 = 0}}
    \cup {record.properties[i].value : i \in 1..Len(record.properties)}
    \cup UNION {{record.properties[i].value.elems[j] :
                    j \in 1..Len(record.properties[i].value.elems)} :
                i \in 1..Len(record.properties)}

\* C2, amended: such a record results in exactly one emit, with severityText
\* the level and the attribute "category" the category, unless stringifying
\* one of its message or property values throws; then the exception leaves
\* the sink and nothing is emitted.
C2_EmittedUnlessThrown ==
    pc = "returned" /\ ~MetaOtel(call.category) =>
        IF threw
        THEN /\ emits = <<>>
             /\ \E v \in StringifiedValues(call) :
                   convertToString(v, objectRendererOf(options)).threw
        ELSE OneEmitOfCall

C2_Witness ==
    /\ pc = "returned"
    /\ call.category = <<"logtape", "meta", "other">>
    /\ call.level = "warning"
    /\ ~threw
    /\ OneEmitOfCall

\* The non-null elements of an array all have the same type.
Homogeneous(value) ==
    \A i, j \in 1..Len(value.elems) :
        ~IsNullish(value.elems[i]) /\ ~IsNullish(value.elems[j])
            => TypeOf(value.elems[i]) = TypeOf(value.elems[j])

\* C3 as stated: convertToAttributes stores an array property whose non-null
\* elements have one type unchanged, and an array property of mixed types as
\* the array of the stringified forms of all its elements.
C3_MixedArrayStringified ==
    fn = "convertToAttributes" /\ ~ret.threw =>
        \A i \in 1..Len(arg) :
            LET value == arg[i].value
                key == "attributes." \o arg[i].name
            IN  value.kind = "array" =>
                  /\ key \in DOMAIN ret.value
                  /\ IF Homogeneous(value)
                     THEN ret.value[key] = value
                     ELSE ret.value[key] =
                            Arr([j \in 1..Len(value.elems) |->
                                   convertToString(value.elems[j], renderer).value])

\* The properties hold no null, undefined or array value.
PlainProperties(properties) ==
    \A i \in 1..Len(properties) :
        properties[i].value.kind \notin {"null", "undefined", "array"}

C5_SeverityMapping ==
    /\ Cardinality({SeverityNumber_DEBUG, SeverityNumber_INFO,
                    SeverityNumber_WARN, SeverityNumber_ERROR,
                    SeverityNumber_FATAL, SeverityNumber_UNSPECIFIED}) = 6
    /\ fn = "mapLevelToSeverityNumber" =>
          /\ ~ret.threw
          /\ arg = "debug" => ret.value = SeverityNumber_DEBUG
          /\ arg = "info" => ret.value = SeverityNumber_INFO
          /\ arg = "warning" => ret.value = SeverityNumber_WARN
          /\ arg = "error" => ret.value = SeverityNumber_ERROR
          /\ arg = "fatal" => ret.value = SeverityNumber_FATAL
          /\ arg \notin {"debug", "info", "warning", "error", "fatal"}
                => ret.value = SeverityNumber_UNSPECIFIED

C5_Witness ==
    /\ fn = "mapLevelToSeverityNumber"
    /\ arg = "trace"
    /\ ret = Ok(SeverityNumber_UNSPECIFIED)

\* The fragment of the body for entry i (1-based) of a message: the entry
\* itself at an even index (0-based), its stringified form at an odd one.
Fragment(message, i) ==
    IF i % 2 = 1 THEN message[i]
    ELSE convertToString(message[i], objectRendererOf(options)).value

RECURSIVE Concatenated(_, _)
\* The text of the fragments from entry i on, "null" and "undefined" written
\* out.
Concatenated(message, i) ==
    IF i > Len(message) THEN <<>>
    ELSE LET f == Fragment(message, i)
         IN  (CASE f.kind = "null" -> <<"n", "u", "l", "l">>
                [] f.kind = "undefined" ->
                     <<"u", "n", "d", "e", "f", "i", "n", "e", "d">>
                [] OTHER -> f.val)
             \o Concatenated(message, i + 1)

\* C6: unless messageType is "array" the body of an emitted record is one
\* string, the fragments of the message in order, a null fragment written as
\* "null" and an undefined one as "undefined"; with "array" the body is the
\* sequence of the fragments, as long as the message.
C6_BodyOfMessage ==
    \A e \in 1..Len(emits) :
        LET message == emits[e].of.message
            body == emits[e].record.body
        IN  IF options.messageType = "array"
            THEN /\ body.kind = "array"
                 /\ Len(body.elems) = Len(message)
                 /\ \A i \in 1..Len(message) :
                       body.elems[i] = Fragment(message, i)
            ELSE /\ body.kind = "string"
                 /\ body.val = Concatenated(message, 1)

C6_Witness ==
    /\ pc = "returned"
    /\ options.messageType = "absent"
    /\ call.message = SpecExample
    /\ Len(emits) = 1
    /\ emits[1].record.body =
          Str(<<"x", "=", "n", "u", "l", "l", ",", "y", "=", "u", "n", "d",
                "e", "f", "i", "n", "e", "d">>)

RECURSIVE Doubled(_)
\* msg with every brace written twice.
Doubled(msg) ==
    IF msg = <<>> THEN <<>>
    ELSE (IF Head(msg) \in {"{", "}"} THEN <<Head(msg), Head(msg)>>
          ELSE <<Head(msg)>>)
         \o Doubled(Tail(msg))

\* C7: every call of error, warn, info, debug or verbose makes one Logger
\* call, of category "logtape", "meta", "otel", at level error, warning,
\* info, debug and debug; its template is the text with every brace doubled
\* and then the slot {values}, and its one property "values" holds the extra
\* values.
C7_DiagnosticLogged ==
    /\ logCount = diagCount
    /\ diagCount > 0 =>
          /\ logged.category = <<"logtape", "meta", "otel">>
          /\ logged.level =
                (CASE diagCall.method = "error" -> "error"
                   [] diagCall.method = "warn" -> "warning"
                   [] diagCall.method = "info" -> "info"
                   [] diagCall.method = "debug" -> "debug"
                   [] diagCall.method = "verbose" -> "debug")
          /\ logged.template =
                Doubled(diagCall.msg)
                \o <<":", " ", "{", "v", "a", "l", "u", "e", "s", "}">>
          /\ logged.properties =
                <<[name |-> "values", value |-> Arr(diagCall.values)]>>

C7_Witness ==
    /\ diagCount = 2
    /\ logCount = 2
    /\ diagCall = [method |-> "verbose", msg |-> <<"{", "}">>,
                   values |-> <<One, Str(<<"a">>)>>]
    /\ logged.level = "debug"
    /\ logged.template
          = <<"{", "{", "}", "}", ":", " ", "{", "v", "a", "l", "u", "e", "s",
              "}">>

\* C9: the sink has the disposal hook exactly if the provider in use has
\* shutdown (the provider the sink builds has it); the provider's shutdown
\* has run as often as the caller invoked the hook, so neither building the
\* sink nor handling a record runs it.
C9_ShutdownOnlyByDispose ==
    /\ shutdownCalls = disposeCalls
    /\ pc = "start" => ~hasDispose /\ disposeCalls = 0
    /\ pc # "start" =>
          (hasDispose <=> options.loggerProvider \in {"absent", "withShutdown"})
    /\ ~hasDispose => disposeCalls = 0

C9_Witness ==
    /\ pc = "returned"
    /\ options.loggerProvider = "withShutdown"
    /\ hasDispose
    /\ Len(emits) = 1
    /\ disposeCalls = 2
    /\ shutdownCalls = 2

\* C10: with diagnostics on, the diagnostic calls the backend makes while it
\* handles an emit come back to the sink as records that are dropped: a
\* sink call is never nested in an emit that a nested sink call made, and
\* the application's log call leads to exactly one emit, of its own record.
C10_FeedbackTerminates ==
    /\ Len(stack) <= 2
    /\ Len(emits) <= 1
    /\ \A i \in 1..Len(emits) : emits[i].of = call
    /\ pc = "logging" => stack = <<"sink", "emit">> /\ Len(emits) = 1
    /\ pc = "returned" /\ ~MetaOtel(call.category) => Len(emits) = 1 /\ ~threw

C10_Witness ==
    /\ pc = "returned"
    /\ options.diagnostics
    /\ diagLogger = "DiagLoggerAdaptor"
    /\ call.category = <<"app">>
    /\ diagCount = 2
    /\ logCount = 2
    /\ Len(emits) = 1

\* util.inspect(v) of Node.js and Bun: as Deno.inspect, with a string in an
\* array in single quotes.
util_inspect(v) ==
    IF v.kind = "array" /\ v.elems # <<>>
    THEN <<"[", " ">>
         \o Join([i \in 1..Len(v.elems) |->
                    IF v.elems[i].kind = "string"
                    THEN <<"'">> \o v.elems[i].val \o <<"'">>
                    ELSE Deno_inspect(v.elems[i])], <<",", " ">>)
         \o <<" ", "]">>
    ELSE Deno_inspect(v)

\* C8 as stated: null, undefined and strings pass through convertToString in
\* both modes; in mode "inspect" any other value is rendered by Deno.inspect
\* where the host has it, by util.inspect where the host has that, and by
\* JSON.stringify only where it has neither.
C8_NativeInspector ==
    fn = "convertToString" /\ host.util \in {"absent", "function"} =>
        IF arg.kind \in {"null", "undefined", "string"} THEN ret = Ok(arg)
        ELSE renderer = "inspect" =>
               ret = (IF host.deno THEN Ok(Str(Deno_inspect(arg)))
                      ELSE IF host.util = "function"
                      THEN Ok(Str(util_inspect(arg)))
                      ELSE JSON_stringify(arg))

=============================================================================
